---- MODULE Spec2Model ----
(***************************************************************************)
(* A model of send_todoist_today.py: a script that, on business days at    *)
(* 07 h Europe/Paris, fetches the Todoist tasks carrying a target label,   *)
(* composes a MarkdownV2 message and posts it to Telegram.                 *)
(*                                                                         *)
(* A Python str is modelled as the sequence of its Unicode code points, so *)
(* that string comparison, concatenation and per-character processing are  *)
(* computed as Python computes them.  A value of a JSON payload or of the  *)
(* environment is a record with one field naming its Python type:          *)
(* [str |-> s], [int |-> i], [list |-> l] or [null |-> TRUE]; two values   *)
(* of different types are unequal, as in Python.  A Python dict is a       *)
(* record whose DOMAIN is the set of keys present.                         *)
(***************************************************************************)
EXTENDS Integers, Sequences, FiniteSets, TLC

VARIABLES
    pc,            \* where the run is: the states of the run's state machine
    env,           \* the three environment variables, as os.getenv returns them
    paris_now,     \* main's sample of the Europe/Paris clock, NotSampled before
    exit_status,   \* the process exit status, NotExited while running
    requests,      \* the HTTP requests issued so far, in order
    trace,         \* the values pc has taken, in order
    fetched,       \* fetch_tasks_with_label's local "tasks": the GET's payload
    tasks,         \* main's "tasks": the filtered list
    projects_map,  \* main's "projects_map"
    tasks_sorted,  \* compose_message's local "tasks_sorted"
    parts,         \* compose_message's local "parts"
    msg,           \* main's "msg"
    text,          \* md_v2_escape's argument, for the calls studied on their own
    escaped        \* md_v2_escape's result for text

vars == <<pc, env, paris_now, exit_status, requests, trace, fetched, tasks,
          projects_map, tasks_sorted, parts, msg, text, escaped>>

(***************************************************************************)
(* Bounds of the model.                                                    *)
(***************************************************************************)
\* longest md_v2_escape argument over the core alphabet
MaxLen == 4
\* longest md_v2_escape argument over the full alphabet
MaxLenFull == 2
\* longest task list given to compose_message or returned by GET tasks
MaxTasks == 3

(***************************************************************************)
(* Python values.                                                          *)
(***************************************************************************)
StrV(s) == [str |-> s]
IntV(i) == [int |-> i]
ListV(l) == [list |-> l]
None == [null |-> TRUE]

IsStr(v) == DOMAIN v = {"str"}
IsInt(v) == DOMAIN v = {"int"}
IsList(v) == DOMAIN v = {"list"}

\* Python's truth value of a str, a list, an int or None
Truthy(v) ==
    IF IsStr(v) THEN v.str # <<>>
    ELSE IF IsList(v) THEN v.list # <<>>
    ELSE IF IsInt(v) THEN v.int # 0
    ELSE FALSE

\* dict.get(key, default)
Get(d, key, default) == IF key \in DOMAIN d THEN d[key] ELSE default

RECURSIVE Digits(_)
\* the decimal digits of a natural number, as format() and str() write them
Digits(n) == IF n < 10 THEN <<48 + n>> ELSE Digits(n \div 10) \o <<48 + (n % 10)>>

\* str(v) for a str, an int or None
PyStr(v) ==
    IF IsStr(v) THEN v.str
    ELSE IF IsInt(v) THEN (IF v.int < 0 THEN <<45>> \o Digits(-v.int) ELSE Digits(v.int))
    ELSE <<78, 111, 110, 101>>                                   \* "None"

RECURSIVE StrLess(_, _)
\* a < b on two str: by code point, a proper prefix first
StrLess(a, b) ==
    IF b = <<>> THEN FALSE
    ELSE IF a = <<>> THEN TRUE
    ELSE IF a[1] # b[1] THEN a[1] < b[1]
    ELSE StrLess(Tail(a), Tail(b))

RECURSIVE Join(_, _)
\* sep.join(list)
Join(sep, list) ==
    IF list = <<>> THEN <<>>
    ELSE IF Len(list) = 1 THEN list[1]
    ELSE list[1] \o sep \o Join(sep, Tail(list))

(***************************************************************************)
(* Module-level configuration (lines 19-29).                               *)
(***************************************************************************)
EnvNames == {"TODOIST_TOKEN", "TELEGRAM_BOT_TOKEN", "TELEGRAM_CHAT_ID"}

\* what os.getenv can return: None (unset), "" (set and empty), a value
EnvValues == {None, StrV(<<>>), StrV(<<116, 111, 107>>)}

\* a slip: the chat id is not checked
ConfigPresentTwo(e) == Truthy(e["TODOIST_TOKEN"]) /\ Truthy(e["TELEGRAM_BOT_TOKEN"])

\* the condition of line 23 negated: all three are truthy
ConfigPresent(e) ==
    Truthy(e["TODOIST_TOKEN"]) /\ Truthy(e["TELEGRAM_BOT_TOKEN"]) /\ Truthy(e["TELEGRAM_CHAT_ID"])

\* "Главное на сегодня"
LabelPlain ==
    <<1043, 1083, 1072, 1074, 1085, 1086, 1077, 32, 1085, 1072, 32, 1089, 1077, 1075,
      1086, 1076, 1085, 1103>>

\* "@Главное на сегодня"
LabelAt == <<64>> \o LabelPlain

\* a slip: the spelling without the at sign is forgotten
TargetOnlyAt == {StrV(LabelAt)}

\* line 29
TARGET_LABEL_NAMES == {StrV(LabelAt), StrV(LabelPlain)}

(***************************************************************************)
(* md_v2_escape (lines 31-34).                                             *)
(***************************************************************************)
\* _ * [ ] ( ) ~ ` > # + - = | { } . !
escape_chars == <<95, 42, 91, 93, 40, 41, 126, 96, 62, 35, 43, 45, 61, 124, 123, 125, 46, 33>>

\* "c in escape_chars" for a one-character c
InEscapeChars(c) == \E i \in 1..Len(escape_chars) : escape_chars[i] = c

\* a slip: the last character of escape_chars is left out of the test
EscapeCharSkipLast(c) == IF InEscapeChars(c) /\ c # 33 THEN <<92, c>> ELSE <<c>>

\* the generator's element for c: '\\' + c if c in escape_chars else c
EscapeChar(c) == IF InEscapeChars(c) THEN <<92, c>> ELSE <<c>>

RECURSIVE md_v2_escape(_)
md_v2_escape(t) == IF t = <<>> THEN <<>> ELSE EscapeChar(t[1]) \o md_v2_escape(Tail(t))

(***************************************************************************)
(* fetch_tasks_with_label (lines 41-49), after the GET returned payload.   *)
(***************************************************************************)
\* t.get("labels") or []
LabelsOf(t) ==
    LET v == Get(t, "labels", None) IN IF Truthy(v) THEN v.list ELSE <<>>

\* any(lbl in label_names for lbl in labels)
AnyLabelIn(labels, label_names) == \E i \in 1..Len(labels) : labels[i] \in label_names

RECURSIVE FilterByLabel(_, _)
\* the loop of lines 44-48: filtered, for the fetched list ts
FilterByLabel(ts, label_names) ==
    IF ts = <<>> THEN <<>>
    ELSE IF AnyLabelIn(LabelsOf(ts[1]), label_names)
         THEN <<ts[1]>> \o FilterByLabel(Tail(ts), label_names)
         ELSE FilterByLabel(Tail(ts), label_names)

(***************************************************************************)
(* fetch_projects_map (lines 51-54), after the GET returned payload.       *)
(***************************************************************************)
RECURSIVE ProjectsMap(_)
\* {str(p["id"]): p["name"] for p in projects}: a later project overwrites
ProjectsMap(projects) ==
    IF projects = <<>> THEN <<>>
    ELSE LET n == Len(projects)
             p == projects[n]
         IN (PyStr(p.id) :> p.name) @@ ProjectsMap(SubSeq(projects, 1, n - 1))

(***************************************************************************)
(* compose_message (lines 56-72).                                          *)
(***************************************************************************)
MonthAbbr ==
    << <<74, 97, 110>>, <<70, 101, 98>>, <<77, 97, 114>>, <<65, 112, 114>>,
       <<77, 97, 121>>, <<74, 117, 110>>, <<74, 117, 108>>, <<65, 117, 103>>,
       <<83, 101, 112>>, <<79, 99, 116>>, <<78, 111, 118>>, <<68, 101, 99>> >>

\* a number zero-padded to two digits, as %d writes the day
Pad2(n) == IF n < 10 THEN <<48>> \o Digits(n) ELSE Digits(n)

\* now.strftime('%d %b %Y') in the C locale
Strftime(now) == Pad2(now.day) \o <<32>> \o MonthAbbr[now.month] \o <<32>> \o Digits(now.year)

\* f"Главное на сегодня\n{now.strftime('%d %b %Y')}\n"
Header(now) == LabelPlain \o <<10>> \o Strftime(now) \o <<10>>

\* "Список пуст. Нет задач с меткой @Главное на сегодня."
EmptyNotice ==
    <<1057, 1087, 1080, 1089, 1086, 1082, 32, 1087, 1091, 1089, 1090, 46, 32, 1053,
      1077, 1090, 32, 1079, 1072, 1076, 1072, 1095, 32, 1089, 32, 1084, 1077, 1090,
      1082, 1086, 1081, 32>> \o LabelAt \o <<46>>

\* "(без названия)"
NoTitle == <<40, 1073, 1077, 1079, 32, 1085, 1072, 1079, 1074, 1072, 1085, 1080, 1103, 41>>

\* "Без проекта"
NoProject == <<1041, 1077, 1079, 32, 1087, 1088, 1086, 1077, 1082, 1090, 1072>>

\* str(task.get("project_id", ""))
ProjectRef(task) == PyStr(Get(task, "project_id", StrV(<<>>)))

\* the inner function project_name of lines 61-62
project_name(task, pm) == Get(pm, ProjectRef(task), StrV(<<>>))

\* a slip: the order field is left out of the key
SortKeyNoOrder(t, pm) == <<project_name(t, pm), IntV(0), Get(t, "content", StrV(<<>>))>>

\* the key of line 63
SortKey(t, pm) ==
    <<project_name(t, pm), Get(t, "order", IntV(0)), Get(t, "content", StrV(<<>>))>>

\* a < b on two values of one type, str or int
ValueLess(a, b) == IF IsInt(a) THEN a.int < b.int ELSE StrLess(a.str, b.str)

\* a < b on two keys: decided at the first position where they differ
KeyLess(a, b) ==
    IF a[1] # b[1] THEN ValueLess(a[1], b[1])
    ELSE IF a[2] # b[2] THEN ValueLess(a[2], b[2])
    ELSE IF a[3] # b[3] THEN ValueLess(a[3], b[3])
    ELSE FALSE

RECURSIVE InsertSorted(_, _, _)
\* t put into the sorted list s before the first element greater than it
InsertSorted(s, t, pm) ==
    IF s = <<>> THEN <<t>>
    ELSE IF KeyLess(SortKey(t, pm), SortKey(s[1], pm)) THEN <<t>> \o s
    ELSE <<s[1]>> \o InsertSorted(Tail(s), t, pm)

RECURSIVE Sorted(_, _)
\* sorted(tasks, key=...): ascending and stable
Sorted(ts, pm) ==
    IF ts = <<>> THEN <<>>
    ELSE LET n == Len(ts) IN InsertSorted(Sorted(SubSeq(ts, 1, n - 1), pm), ts[n], pm)

\* a slip: no empty element is appended after a task
TaskPartsNoSeparator(idx, t, pm) ==
    LET content == md_v2_escape(Get(t, "content", StrV(NoTitle)).str)
        proj == Get(pm, ProjectRef(t), StrV(NoProject))
        proj_escaped == md_v2_escape(proj.str)
    IN << Digits(idx) \o <<46, 32>> \o content, <<95>> \o proj_escaped \o <<95>> >>

\* the three elements one task appends to parts (lines 66-71)
TaskParts(idx, t, pm) ==
    LET content == md_v2_escape(Get(t, "content", StrV(NoTitle)).str)
        proj == Get(pm, ProjectRef(t), StrV(NoProject))
        proj_escaped == md_v2_escape(proj.str)
    IN << Digits(idx) \o <<46, 32>> \o content, <<95>> \o proj_escaped \o <<95>>, <<>> >>

RECURSIVE LoopParts(_, _, _)
\* what the loop of lines 65-71 appends for the first n tasks of the sorted list
LoopParts(sorted, n, pm) ==
    IF n = 0 THEN <<>>
    ELSE LoopParts(sorted, n - 1, pm) \o TaskParts(n, sorted[n], pm)

\* parts when the loop ends
Parts(ts, pm, now) ==
    <<md_v2_escape(Header(now)), <<>> >> \o LoopParts(Sorted(ts, pm), Len(ts), pm)

\* a slip: the early return for an empty list is missing
ComposeNoEmptyBranch(ts, pm, now) == Join(<<10>>, Parts(ts, pm, now))

\* the value compose_message returns
compose_message(ts, pm, now) ==
    IF ts = <<>>
    THEN md_v2_escape(Header(now)) \o <<10>> \o md_v2_escape(EmptyNotice)
    ELSE Join(<<10>>, Parts(ts, pm, now))

\* compose_message raises TypeError: a task whose content is present and is
\* not a str reaches md_v2_escape (or is compared with a str by sorted)
ComposeRaises(ts) ==
    \E i \in 1..Len(ts) : "content" \in DOMAIN ts[i] /\ ~IsStr(ts[i].content)

(***************************************************************************)
(* The run: the module-level check, then main (lines 85-105).              *)
(***************************************************************************)
NotSampled == [sampled |-> FALSE]

\* the process is running: it has reported no exit status
NotExited == <<>>

GetTasks == [method |-> "GET", url |-> "tasks"]
GetProjects == [method |-> "GET", url |-> "projects"]
\* the request of lines 75-81
PostMessage(t) ==
    [method |-> "POST", url |-> "sendMessage", text |-> t,
     parse_mode |-> "MarkdownV2", disable_web_page_preview |-> TRUE]

Goto(state) == pc' = state /\ trace' = Append(trace, state)

\* the process ends with the given status
Exit(state, status) == Goto(state) /\ exit_status' = <<status>>

\* lines 23-25: sys.exit(1) when a required variable is missing
ConfigCheck ==
    /\ pc = "START"
    /\ \/ ~ConfigPresent(env) /\ Exit("DONE_NOCONFIG", 1)
       \/ ConfigPresent(env) /\ Goto("INIT") /\ UNCHANGED exit_status
    /\ UNCHANGED <<env, paris_now, requests, fetched, tasks, projects_map,
                   tasks_sorted, parts, msg, text, escaped>>

\* a slip: Saturday counts as a business day
IsWeekendOffByOne(now) == now.weekday > 5

\* the gate of line 90
IsWeekend(now) == now.weekday >= 5

\* the gate of line 93
WrongHour(now) == now.hour # 7

\* lines 86-95: sample the clock, return on a weekend or outside 07 h
TimeGate ==
    /\ pc = "INIT"
    /\ \E weekday \in 0..6, hour \in 0..23 :
          /\ paris_now' = [weekday |-> weekday, hour |-> hour]
          /\ \/ IsWeekend(paris_now') /\ Exit("DONE_SKIPPED", 0)
             \/ ~IsWeekend(paris_now') /\ WrongHour(paris_now') /\ Exit("DONE_SKIPPED", 0)
             \/ /\ ~IsWeekend(paris_now') /\ ~WrongHour(paris_now')
                /\ Goto("FETCHING_TASKS") /\ UNCHANGED exit_status
    /\ UNCHANGED <<env, requests, fetched, tasks, projects_map, tasks_sorted,
                   parts, msg, text, escaped>>

\* a slip: the handler exits with the status of a missing configuration
FailStatusOne == Exit("DONE_FAILED", 1)

\* lines 103-105: the handler of whatever the pipeline raised
Fail == Exit("DONE_FAILED", 2)

\* line 98: GET tasks, answered by an error or by one of payloads, then the filter
FetchTasks(payloads) ==
    /\ pc = "FETCHING_TASKS"
    /\ requests' = Append(requests, GetTasks)
    /\ \/ Fail /\ UNCHANGED <<fetched, tasks>>
       \/ \E payload \in payloads :
             /\ fetched' = payload
             /\ tasks' = FilterByLabel(payload, TARGET_LABEL_NAMES)
             /\ Goto("FETCHING_PROJECTS") /\ UNCHANGED exit_status
    /\ UNCHANGED <<env, paris_now, projects_map, tasks_sorted, parts, msg, text, escaped>>

\* line 99: GET projects, answered by an error or by one of payloads
FetchProjects(payloads) ==
    /\ pc = "FETCHING_PROJECTS"
    /\ requests' = Append(requests, GetProjects)
    /\ \/ Fail /\ UNCHANGED projects_map
       \/ \E payload \in payloads :
             /\ projects_map' = ProjectsMap(payload)
             /\ Goto("COMPOSING") /\ UNCHANGED exit_status
    /\ UNCHANGED <<env, paris_now, fetched, tasks, tasks_sorted, parts, msg, text, escaped>>

\* line 100: compose_message, on one of the dates the clock can show
Compose(dates) ==
    /\ pc = "COMPOSING"
    /\ \/ ComposeRaises(tasks) /\ Fail /\ UNCHANGED <<tasks_sorted, parts, msg>>
       \/ /\ ~ComposeRaises(tasks)
          /\ \E now \in dates :
                /\ tasks_sorted' = IF tasks = <<>> THEN tasks_sorted
                                   ELSE Sorted(tasks, projects_map)
                /\ parts' = IF tasks = <<>> THEN parts
                            ELSE Parts(tasks, projects_map, now)
                /\ msg' = compose_message(tasks, projects_map, now)
          /\ Goto("SENDING") /\ UNCHANGED exit_status
    /\ UNCHANGED <<env, paris_now, requests, fetched, tasks, projects_map, text, escaped>>

\* a slip: a failed POST is issued a second time before the run fails
SendRetry ==
    /\ pc = "SENDING"
    /\ \/ requests' = Append(requests, PostMessage(msg)) /\ Exit("DONE_SENT", 0)
       \/ requests' = requests \o <<PostMessage(msg), PostMessage(msg)>> /\ Fail
    /\ UNCHANGED <<env, paris_now, fetched, tasks, projects_map, tasks_sorted,
                   parts, msg, text, escaped>>

\* lines 101-102: POST the message; main returns when it is acknowledged
Send ==
    /\ pc = "SENDING"
    /\ requests' = Append(requests, PostMessage(msg))
    /\ \/ Fail
       \/ Exit("DONE_SENT", 0)
    /\ UNCHANGED <<env, paris_now, fetched, tasks, projects_map, tasks_sorted,
                   parts, msg, text, escaped>>

\* one call of md_v2_escape
EscapeCall ==
    /\ pc = "ESCAPE_CALL"
    /\ escaped' = md_v2_escape(text)
    /\ Goto("ESCAPE_RETURNED")
    /\ UNCHANGED <<env, paris_now, exit_status, requests, fetched, tasks,
                   projects_map, tasks_sorted, parts, msg, text>>

(***************************************************************************)
(* The inputs the model draws: payloads of the two APIs, dates, strings.   *)
(***************************************************************************)
\* every sequence over S of length at most n
SeqsUpTo(S, n) == UNION {[1..k -> S] : k \in 0..n}

\* marks a key that a dict built by Dict does not have
Absent == [absent |-> TRUE]

\* the dict with the keys of d whose value is not Absent
Dict(d) == [k \in {x \in DOMAIN d : d[x] # Absent} |-> d[k]]

LabelOther == <<111, 116, 104, 101, 114>>                        \* "other"

\* "главное на сегодня": the plain spelling in lower case
LabelLower == <<1075>> \o Tail(LabelPlain)

\* the values of a task's "labels" the filter is studied on
LabelOptions ==
    {Absent, None, ListV(<<>>),
     ListV(<<StrV(LabelOther)>>), ListV(<<StrV(LabelLower)>>),
     ListV(<<StrV(LabelAt)>>), ListV(<<StrV(LabelPlain)>>),
     ListV(<<StrV(LabelOther), StrV(LabelAt)>>),
     ListV(<<StrV(LabelAt), StrV(LabelPlain)>>)}

FilterTasks ==
    {Dict([id |-> StrV(i), content |-> StrV(<<120>>), labels |-> l]) :
        i \in {<<49>>, <<50>>}, l \in LabelOptions}

\* the answers of GET tasks the filter is studied on
FilterPayloads == SeqsUpTo(FilterTasks, MaxTasks)

Labelled(d) == Dict([labels |-> ListV(<<StrV(LabelAt)>>)] @@ d)

\* the labelled tasks compose_message is studied on: project 1, 2 or none,
\* contents with and without punctuation, order given or not, content
\* missing, content null; among them two tasks that differ and have one key
ComposeTasks ==
    {Labelled([project_id |-> p, content |-> c]) :
        p \in {Absent, StrV(<<49>>), StrV(<<50>>)},
        c \in {StrV(<<120>>), StrV(<<121, 46>>)}}
    \cup
    {Labelled([project_id |-> StrV(<<50>>), order |-> IntV(1), content |-> StrV(<<120>>)]),
     Labelled([project_id |-> StrV(<<49>>), order |-> IntV(2), content |-> StrV(<<121>>)]),
     Labelled([project_id |-> StrV(<<49>>), order |-> IntV(0), content |-> StrV(<<120>>)]),
     Labelled([project_id |-> StrV(<<50>>)]),
     Labelled([project_id |-> StrV(<<50>>), content |-> None])}

ComposeTaskLists == SeqsUpTo(ComposeTasks, MaxTasks)

Project(id, name) == [id |-> id, name |-> StrV(name)]

\* the answers of GET projects compose_message is studied on
ComposeProjectPayloads ==
    {<<>>,
     <<Project(StrV(<<49>>), <<65>>), Project(StrV(<<50>>), <<66>>)>>,
     <<Project(IntV(1), <<66, 95>>), Project(StrV(<<50>>), <<65>>)>>}

\* the dates the clock can show when compose_message samples it
Dates == {[day |-> 3, month |-> 11, year |-> 2026], [day |-> 16, month |-> 6, year |-> 2027]}

\* {content="Buy milk", labels=["@Главное на сегодня"], project_id="1", order=0}
BuyMilk ==
    [content |-> StrV(<<66, 117, 121, 32, 109, 105, 108, 107>>),
     labels |-> ListV(<<StrV(LabelAt)>>), project_id |-> StrV(<<49>>), order |-> IntV(0)]

TaskBX == Labelled([project_id |-> StrV(<<50>>), order |-> IntV(1), content |-> StrV(<<120>>)])
TaskAY == Labelled([project_id |-> StrV(<<49>>), order |-> IntV(2), content |-> StrV(<<121>>)])
TaskOther == [content |-> StrV(<<122>>), labels |-> ListV(<<StrV(LabelOther)>>)]
TaskNullContent == Labelled([project_id |-> None, content |-> None])
TaskNullProject == Labelled([project_id |-> None, content |-> StrV(<<119>>)])

\* the answers of GET tasks in a whole run
RunTaskPayloads ==
    {<<>>, <<BuyMilk>>, <<TaskOther>>, <<TaskBX, TaskAY>>, <<TaskOther, BuyMilk, TaskNullContent>>,
     <<TaskNullProject, TaskOther, BuyMilk>>}

\* the answers of GET projects in a whole run
RunProjectPayloads ==
    {<<>>,
     <<Project(StrV(<<49>>), <<72, 111, 109, 101>>)>>,
     <<Project(StrV(<<49>>), <<65>>), Project(StrV(<<50>>), <<66>>)>>}

\* a b . ! _ and the backslash
CoreAlphabet == {97, 98, 46, 33, 95, 92}

\* every character of escape_chars, and a backslash, letters, a space, a
\* newline, an at sign
FullAlphabet == {escape_chars[i] : i \in 1..Len(escape_chars)} \cup {92, 97, 1043, 32, 10, 64}

\* the arguments md_v2_escape is studied on
EscapeInputs == SeqsUpTo(CoreAlphabet, MaxLen) \cup SeqsUpTo(FullAlphabet, MaxLenFull)

(***************************************************************************)
(* Specifications.                                                         *)
(***************************************************************************)
EnvPresent == [n \in EnvNames |-> StrV(<<116, 111, 107>>)]

Unset ==
    /\ fetched = <<>> /\ tasks = <<>> /\ projects_map = <<>>
    /\ tasks_sorted = <<>> /\ parts = <<>> /\ msg = <<>>
    /\ text = <<>> /\ escaped = <<>>

\* the process starts: the environment is any, nothing has happened
Init ==
    /\ pc = "START" /\ trace = <<"START">>
    /\ env \in [EnvNames -> EnvValues]
    /\ paris_now = NotSampled /\ exit_status = NotExited /\ requests = <<>>
    /\ Unset

RunFetchTasks == FetchTasks(RunTaskPayloads)
RunFetchProjects == FetchProjects(RunProjectPayloads)
RunCompose == Compose(Dates)

Next == ConfigCheck \/ TimeGate \/ RunFetchTasks \/ RunFetchProjects \/ RunCompose \/ Send

\* the whole run
Spec == Init /\ [][Next]_vars

\* a run that passed the gate on a Tuesday at 07 h and is about to fetch
InitFilter ==
    /\ pc = "FETCHING_TASKS" /\ trace = <<"START", "INIT", "FETCHING_TASKS">>
    /\ env = EnvPresent /\ paris_now = [weekday |-> 1, hour |-> 7]
    /\ exit_status = NotExited /\ requests = <<>>
    /\ Unset

NextFilter == FetchTasks(FilterPayloads)

\* fetch_tasks_with_label on the filter's payloads
SpecFilter == InitFilter /\ [][NextFilter]_vars

\* a run that fetched a list of labelled tasks and a projects map
InitCompose ==
    /\ pc = "COMPOSING"
    /\ trace = <<"START", "INIT", "FETCHING_TASKS", "FETCHING_PROJECTS", "COMPOSING">>
    /\ env = EnvPresent /\ paris_now = [weekday |-> 1, hour |-> 7]
    /\ exit_status = NotExited /\ requests = <<GetTasks, GetProjects>>
    /\ tasks \in ComposeTaskLists /\ fetched = tasks
    /\ projects_map \in {ProjectsMap(p) : p \in ComposeProjectPayloads}
    /\ tasks_sorted = <<>> /\ parts = <<>> /\ msg = <<>>
    /\ text = <<>> /\ escaped = <<>>

NextCompose == Compose(Dates)

\* compose_message on the composer's task lists and maps
SpecCompose == InitCompose /\ [][NextCompose]_vars

\* md_v2_escape is about to be called on text
InitEscape ==
    /\ pc = "ESCAPE_CALL" /\ trace = <<"ESCAPE_CALL">>
    /\ env = EnvPresent /\ paris_now = NotSampled
    /\ exit_status = NotExited /\ requests = <<>>
    /\ fetched = <<>> /\ tasks = <<>> /\ projects_map = <<>>
    /\ tasks_sorted = <<>> /\ parts = <<>> /\ msg = <<>>
    /\ text \in EscapeInputs /\ escaped = <<>>

NextEscape == EscapeCall

\* md_v2_escape on the escaper's inputs
SpecEscape == InitEscape /\ [][NextEscape]_vars

(***************************************************************************)
(* The time gate, the configuration check and the pipeline's control flow. *)
(***************************************************************************)
Range(f) == {f[i] : i \in DOMAIN f}

Terminal == {"DONE_NOCONFIG", "DONE_SKIPPED", "DONE_SENT", "DONE_FAILED"}

\* C1: once main has sampled the clock, the run has left INIT for the fetch
\* if and only if the weekday is Monday..Friday and the hour is 7; on any
\* other instant (Saturday or Sunday at any hour, a business day outside
\* 07 h) the run is over as DONE-SKIPPED with exit status 0 and has issued
\* no request; and a run is DONE-SKIPPED only on such an instant.
C1_GateDecision ==
    paris_now # NotSampled =>
        LET pass == paris_now.weekday \in 0..4 /\ paris_now.hour = 7 IN
        /\ pass <=> (Len(trace) >= 3 /\ trace[3] = "FETCHING_TASKS")
        /\ ~pass => /\ pc = "DONE_SKIPPED" /\ exit_status = <<0>> /\ requests = <<>>
                    /\ trace = <<"START", "INIT", "DONE_SKIPPED">>
        /\ pc = "DONE_SKIPPED" => ~pass

\* a Saturday at 07 h was sampled and the run was skipped
C1_Witness ==
    /\ pc = "DONE_SKIPPED" /\ paris_now # NotSampled
    /\ paris_now.weekday = 5 /\ paris_now.hour = 7

\* an environment variable is missing: unset or empty
C2_Missing(v) == v = None \/ v = StrV(<<>>)

\* C2: when one of the three required environment variables is missing, the
\* run is either not yet checked or aborted with exit status 1 straight from
\* the start; no request was issued and the clock was never sampled.
C2_MissingConfigAborts ==
    (\E n \in EnvNames : C2_Missing(env[n])) =>
        /\ requests = <<>> /\ paris_now = NotSampled
        /\ \/ pc = "START" /\ exit_status = NotExited
           \/ /\ pc = "DONE_NOCONFIG" /\ exit_status = <<1>>
              /\ trace = <<"START", "DONE_NOCONFIG">>

\* only the chat id is missing (set and empty) and the run aborted
C2_Witness ==
    /\ pc = "DONE_NOCONFIG"
    /\ env["TELEGRAM_CHAT_ID"] = StrV(<<>>)
    /\ ~C2_Missing(env["TODOIST_TOKEN"]) /\ ~C2_Missing(env["TELEGRAM_BOT_TOKEN"])

\* the steps of the gated pipeline, in order
Pipeline == <<"FETCHING_TASKS", "FETCHING_PROJECTS", "COMPOSING", "SENDING">>

\* the requests issued when the pipeline stopped in its k-th step
C3_RequestsAt(k) ==
    IF k = 1 THEN <<GetTasks>>
    ELSE IF k < 4 THEN <<GetTasks, GetProjects>>
    ELSE <<GetTasks, GetProjects, PostMessage(msg)>>

\* C3: a run whose pipeline step raised is DONE-FAILED with exit status 2,
\* and only such a run has that status; the failing step is the last one
\* executed: the requests issued are those up to the failing step, each
\* once (no retry, no POST after a failed fetch or compose), no message
\* exists when the fetch or the composition failed, and the run takes no
\* further step.  A task list that makes the composition raise never
\* reaches the send.
C3_FailureStopsRun ==
    /\ (exit_status = <<2>>) <=> (pc = "DONE_FAILED")
    /\ pc = "DONE_FAILED" =>
          LET n == Len(trace) IN
          /\ \E k \in 1..4 :
                /\ trace = <<"START", "INIT">> \o SubSeq(Pipeline, 1, k) \o <<"DONE_FAILED">>
                /\ requests = C3_RequestsAt(k)
                /\ k < 4 => msg = <<>>
          /\ ~ENABLED Next
    /\ (\E i \in 1..Len(tasks) : "content" \in DOMAIN tasks[i] /\ tasks[i].content = None)
          => "SENDING" \notin Range(trace)

\* the composition raised and the run failed without a POST
C3_Witness ==
    /\ pc = "DONE_FAILED" /\ exit_status = <<2>>
    /\ trace[Len(trace) - 1] = "COMPOSING"
    /\ requests = <<GetTasks, GetProjects>>

\* C4: the requests issued are a prefix of GET tasks, GET projects, POST,
\* so each is issued at most once and in that order; a POST exists only
\* after the gate passed, both GETs were answered and the message was
\* composed, and it carries the message composed from the filtered tasks
\* and the projects map.  A run that passed the gate and ended without a
\* failure went through FETCHING, COMPOSING, SENDING in that order, issued
\* the two GETs and the one POST, and is DONE-SENT with exit status 0.
C4_RequestOrder ==
    /\ Len(requests) <= 3
    /\ Len(requests) >= 1 => requests[1] = GetTasks
    /\ Len(requests) >= 2 => requests[2] = GetProjects
    /\ Len(requests) = 3 =>
          /\ requests[3] = PostMessage(msg)
          /\ \E now \in Dates : msg = compose_message(tasks, projects_map, now)
          /\ SubSeq(trace, 1, 6) = <<"START", "INIT">> \o Pipeline
          /\ paris_now.weekday < 5 /\ paris_now.hour = 7
    /\ (pc \in Terminal \ {"DONE_FAILED"} /\ "FETCHING_TASKS" \in Range(trace)) =>
          /\ pc = "DONE_SENT" /\ exit_status = <<0>>
          /\ trace = <<"START", "INIT">> \o Pipeline \o <<"DONE_SENT">>
          /\ requests = <<GetTasks, GetProjects, PostMessage(msg)>>
    /\ pc = "DONE_SENT" => "FETCHING_TASKS" \in Range(trace)

\* a run that sent a message listing two tasks
C4_Witness ==
    /\ pc = "DONE_SENT" /\ Len(tasks) = 2
    /\ Len(requests) = 3 /\ requests[3].text = msg /\ msg # <<>>

(***************************************************************************)
(* The escaper, the filter and the composer.                               *)
(***************************************************************************)
\* the punctuation set, as the set of its code points
Punctuation == {33, 35, 40, 41, 42, 43, 45, 46, 61, 62, 91, 93, 95, 96, 123, 124, 125, 126}

\* the underscore at i opens or closes a line of m
C5_Delimiter(m, i) ==
    m[i] = 95 /\ (i = 1 \/ m[i - 1] = 10 \/ i = Len(m) \/ m[i + 1] = 10)

\* C5: in the message compose_message returned, every punctuation character
\* other than the underscores delimiting an italic line is immediately
\* preceded by a backslash: header, notice, contents, project names and the
\* numbering prefix of each task line.
C5_EveryFragmentEscaped ==
    pc = "SENDING" =>
        \A i \in 1..Len(msg) :
            (msg[i] \in Punctuation /\ ~C5_Delimiter(msg, i)) => (i > 1 /\ msg[i - 1] = 92)

\* a < b on two strings, stated by the first position where they differ
C6_StrBefore(a, b) ==
    \E k \in 1..Len(b) :
        /\ \A i \in 1..(k - 1) : i <= Len(a) /\ a[i] = b[i]
        /\ k = Len(a) + 1 \/ (k <= Len(a) /\ a[k] < b[k])

\* the three sort keys of a task: the name its project reference resolves to
\* in the projects map (empty when it resolves to none), its order (0 when
\* missing), its content (empty when missing)
C6_Name(t) ==
    IF "project_id" \in DOMAIN t /\ IsStr(t.project_id) /\ t.project_id.str \in DOMAIN projects_map
    THEN projects_map[t.project_id.str].str ELSE <<>>
C6_Order(t) == IF "order" \in DOMAIN t THEN t.order.int ELSE 0
C6_Content(t) == IF "content" \in DOMAIN t THEN t.content.str ELSE <<>>

C6_SameKey(s, t) ==
    C6_Name(s) = C6_Name(t) /\ C6_Order(s) = C6_Order(t) /\ C6_Content(s) = C6_Content(t)

\* s comes strictly before t: name first, then order, then content
C6_Before(s, t) ==
    \/ C6_StrBefore(C6_Name(s), C6_Name(t))
    \/ /\ C6_Name(s) = C6_Name(t)
       /\ \/ C6_Order(s) < C6_Order(t)
          \/ C6_Order(s) = C6_Order(t) /\ C6_StrBefore(C6_Content(s), C6_Content(t))

\* the content a task line shows
ShownContent(t) == IF "content" \in DOMAIN t THEN t.content.str ELSE NoTitle

\* C6: the sorted list holds the tasks of the input in ascending
\* lexicographic order of (project name, order, content), the tasks equal on
\* all three keys in their input order, and the i-th numbered line of the
\* message is the line of the i-th task of that list.
C6_SortedByNameOrderContent ==
    (pc = "SENDING" /\ tasks # <<>>) =>
        /\ Len(tasks_sorted) = Len(tasks)
        /\ \A i, j \in 1..Len(tasks_sorted) :
              i < j => ~C6_Before(tasks_sorted[j], tasks_sorted[i])
        /\ \A t \in Range(tasks) :
              SelectSeq(tasks_sorted, LAMBDA u : C6_SameKey(u, t))
                  = SelectSeq(tasks, LAMBDA u : C6_SameKey(u, t))
        /\ Len(parts) = 2 + 3 * Len(tasks)
        /\ \A i \in 1..Len(tasks_sorted) :
              parts[3 * i] = Digits(i) \o <<46, 32>> \o md_v2_escape(ShownContent(tasks_sorted[i]))
        /\ msg = Join(<<10>>, parts)

\* the tasks (project B, order 1, x), (project A, order 2, y) were rendered
\* as y, then x: the project name decides before the order
C6_Witness ==
    /\ pc = "SENDING" /\ Len(tasks) = 2
    /\ C6_Name(tasks[1]) = <<66>> /\ C6_Order(tasks[1]) = 1 /\ C6_Content(tasks[1]) = <<120>>
    /\ C6_Name(tasks[2]) = <<65>> /\ C6_Order(tasks[2]) = 2 /\ C6_Content(tasks[2]) = <<121>>
    /\ tasks_sorted = <<tasks[2], tasks[1]>>
    /\ parts[3] = <<49, 46, 32, 121>> /\ parts[6] = <<50, 46, 32, 120>>

\* the task carries one of the two target spellings
C7_HasTargetLabel(t) ==
    /\ "labels" \in DOMAIN t /\ IsList(t.labels)
    /\ \E i \in 1..Len(t.labels.list) :
          t.labels.list[i] = StrV(LabelAt) \/ t.labels.list[i] = StrV(LabelPlain)

\* C7: the list fetch_tasks_with_label returns is the fetched list with
\* exactly the tasks carrying neither target spelling removed (labels
\* missing, null, empty or other): the tasks kept are in their fetched
\* order, each as often as it was fetched.
C7_FilterKeepsTargetLabels ==
    pc = "FETCHING_PROJECTS" => tasks = SelectSeq(fetched, C7_HasTargetLabel)

\* of three fetched tasks the one labelled "other" is dropped and the two
\* spellings are kept, in order
C7_Witness ==
    /\ pc = "FETCHING_PROJECTS" /\ Len(fetched) = 3 /\ Len(tasks) = 2
    /\ \A i \in 1..3 : "labels" \in DOMAIN fetched[i]
    /\ fetched[1].labels = ListV(<<StrV(LabelOther)>>)
    /\ fetched[2].labels = ListV(<<StrV(LabelPlain)>>)
    /\ fetched[3].labels = ListV(<<StrV(LabelAt)>>)
    /\ tasks = <<fetched[2], fetched[3]>>

\* the number of punctuation characters among the first i of t
C8_Count(t, i) == Cardinality({k \in 1..i : t[k] \in Punctuation})

\* C8: the output is the input with one backslash before each punctuation
\* character and every other character (a backslash too) copied: its length
\* is the input's plus the number of punctuation characters, the i-th input
\* character stands at i plus the number of punctuation characters up to it,
\* and a punctuation character has a backslash right before it; "a.b!"
\* becomes a \ . b \ !
C8_EscapeIsPerCharacter ==
    pc = "ESCAPE_RETURNED" =>
        /\ Len(escaped) = Len(text) + C8_Count(text, Len(text))
        /\ \A i \in 1..Len(text) :
              /\ escaped[i + C8_Count(text, i)] = text[i]
              /\ text[i] \in Punctuation => escaped[i + C8_Count(text, i) - 1] = 92
        /\ text = <<97, 46, 98, 33>> => escaped = <<97, 92, 46, 98, 92, 33>>

\* "a.b!" was escaped
C8_Witness ==
    /\ pc = "ESCAPE_RETURNED" /\ text = <<97, 46, 98, 33>>
    /\ escaped = <<97, 92, 46, 98, 92, 33>>

\* the project reference of the task resolves in the projects map
C9_Resolves(t) ==
    /\ "project_id" \in DOMAIN t /\ IsStr(t.project_id)
    /\ t.project_id.str # <<>> /\ t.project_id.str \in DOMAIN projects_map

\* the name the italic line of the task shows
C9_ShownProject(t) ==
    IF C9_Resolves(t) THEN projects_map[t.project_id.str].str ELSE NoProject

\* C9: for n > 0 tasks the message is the header, an empty line and n
\* entries joined by newlines; the entries are the input's tasks, each as
\* often as in the input, in sorted order; entry i is the line "i. content",
\* the line "_project name_" and an empty line, the name being the
\* placeholder exactly for a task whose project reference does not resolve.
C9_OneEntryPerTask ==
    (pc = "SENDING" /\ tasks # <<>>) =>
        LET n == Len(tasks) IN
        /\ Len(tasks_sorted) = n
        /\ \A t \in Range(tasks) \cup Range(tasks_sorted) :
              Cardinality({i \in 1..n : tasks_sorted[i] = t})
                  = Cardinality({i \in 1..n : tasks[i] = t})
        /\ Len(parts) = 2 + 3 * n
        /\ \E now \in Dates : parts[1] = md_v2_escape(Header(now))
        /\ parts[2] = <<>>
        /\ \A i \in 1..n :
              LET t == tasks_sorted[i] IN
              /\ parts[3 * i] = Digits(i) \o <<46, 32>> \o md_v2_escape(ShownContent(t))
              /\ parts[3 * i + 1] = <<95>> \o md_v2_escape(C9_ShownProject(t)) \o <<95>>
              /\ parts[3 * i + 2] = <<>>
              /\ (parts[3 * i + 1] = <<95>> \o md_v2_escape(NoProject) \o <<95>>)
                    <=> ~C9_Resolves(t)
        /\ msg = Join(<<10>>, parts)

\* three tasks were rendered, one under the placeholder and one under the
\* name of its project
C9_Witness ==
    /\ pc = "SENDING" /\ Len(tasks) = 3 /\ Len(parts) = 11
    /\ \E i, j \in 1..3 : ~C9_Resolves(tasks_sorted[i]) /\ C9_Resolves(tasks_sorted[j])
    /\ parts[9] = <<51, 46, 32>> \o md_v2_escape(ShownContent(tasks_sorted[3]))

\* the escaped headers of the two dates: the title, a newline, the date, a
\* newline
C10_Headers ==
    {<<1043, 1083, 1072, 1074, 1085, 1086, 1077, 32, 1085, 1072, 32, 1089, 1077, 1075,
       1086, 1076, 1085, 1103, 10, 48, 51, 32, 78, 111, 118, 32, 50, 48, 50, 54, 10>>,
     <<1043, 1083, 1072, 1074, 1085, 1086, 1077, 32, 1085, 1072, 32, 1089, 1077, 1075,
       1086, 1076, 1085, 1103, 10, 49, 54, 32, 74, 117, 110, 32, 50, 48, 50, 55, 10>>}

\* the escaped notice: the notice with a backslash before each full stop
C10_Notice ==
    <<1057, 1087, 1080, 1089, 1086, 1082, 32, 1087, 1091, 1089, 1090, 92, 46, 32, 1053,
      1077, 1090, 32, 1079, 1072, 1076, 1072, 1095, 32, 1089, 32, 1084, 1077, 1090,
      1082, 1086, 1081, 32, 64, 1043, 1083, 1072, 1074, 1085, 1086, 1077, 32, 1085,
      1072, 32, 1089, 1077, 1075, 1086, 1076, 1085, 1103, 92, 46>>

Contains(m, s) == \E k \in 0..(Len(m) - Len(s)) : SubSeq(m, k + 1, k + Len(s)) = s

\* C10: for an empty task list the message is the escaped header, a newline
\* and the escaped notice, and nothing else (no numbered entry, no italic
\* line), whatever the projects map holds; for a non-empty list the message
\* does not contain the notice.
C10_EmptyListNotice ==
    pc = "SENDING" =>
        /\ tasks = <<>> =>
              /\ \E h \in C10_Headers : msg = h \o <<10>> \o C10_Notice
              /\ tasks_sorted = <<>> /\ parts = <<>>
        /\ tasks # <<>> => ~Contains(msg, C10_Notice)

\* an empty list was composed with a projects map that is not empty
C10_Witness ==
    /\ pc = "SENDING" /\ tasks = <<>> /\ DOMAIN projects_map # {}
    /\ Contains(msg, C10_Notice)

====
